---- MODULE Spec2Model ----
(***************************************************************************)
(* Model of area_per_ppp_sector.py: the estimation of a land-footprint     *)
(* coefficient per economic sector.  The script is one straight-line       *)
(* pipeline: the indicator loop builds the country table `alldata`, the    *)
(* PPP column is derived, the ICIO table is read, the matrix `output_ppp`  *)
(* is filled cell by cell, rows with a NaN are removed, lsq_linear is      *)
(* called and the sector -> coefficient dict is printed.                   *)
(*                                                                         *)
(* Strings that the script slices or concatenates (column names, country   *)
(* codes, sector names) are sequences of one-character strings.  Floats    *)
(* are non-negative extended rationals <<n, d>>: <<n, d>> with d > 0 is    *)
(* n/d in lowest terms, <<1, 0>> is +inf and <<0, 0>> is NaN.              *)
(***************************************************************************)
EXTENDS Integers, Sequences, FiniteSets, TLC

\* ------------------------------------------------------------------ bounds
MaxVal == 2
MaxOut == 2
MaxCoef == 1
MaxCols == 3

\* ------------------------------------------------------- program constants
\* params={"lastNObservations": 1}
LastNObservations == 1
\* sect[4:]
PrefixLen == 4
\* sect.startswith("AUS_")
RefPrefix == <<"A", "U", "S", "_">>

Indicators ==
    << <<"AG_LND_AGRI_ZS", "Agricultural land (% of land area)">>,
       <<"AG_LND_FRST_K2", "Forest area (sq. km)">>,
       <<"EN_ATM_CO2E_PC", "CO2 emissions (metric tons per capita)">>,
       <<"NY_GDP_MKTP_CD", "GDP (current US$)">>,
       <<"NY_GNP_PCAP_CD", "GNI per capita, Atlas method (current US$)">>,
       <<"NY_GNP_PCAP_PP_CD", "GNI per capita, PPP (current international $)">>,
       <<"NY_GNP_ATLS_CD", "GNI, Atlas method (current US$)">>,
       <<"NY_GNP_MKTP_PP_CD", "GNI, PPP (current international $)">>,
       <<"AG_SRF_TOTL_K2", "Surface area (sq. km)">> >>

IndicatorNames == {Indicators[n][1] : n \in 1..Len(Indicators)}

AtlasColumn == "GNI per capita, Atlas method (current US$)"
PPPGNIColumn == "GNI per capita, PPP (current international $)"
AreaColumn == "Surface area (sq. km)"
PPPColumn == "PPP"

\* a name the script has not bound yet
Undefined == [unbound |-> TRUE]
IsBound(v) == "unbound" \notin DOMAIN v

\* ------------------------------------------------------------------ floats
NaN == <<0, 0>>
Inf == <<1, 0>>
Num(n) == <<n, 1>>
Zero == Num(0)

IsNaN(v) == v = NaN
IsInf(v) == v = Inf
IsFinite(v) == v[2] > 0

RECURSIVE GCD(_, _)
GCD(a, b) == IF b = 0 THEN a ELSE GCD(b, a % b)

Norm(n, d) == LET g == GCD(n, d) IN <<n \div g, d \div g>>

\* float64 true division of non-negative operands (numpy / pandas): no
\* exception on a zero divisor, x/0 = inf, 0/0 = nan, NaN propagates.
FDiv(a, b) ==
    IF IsNaN(a) \/ IsNaN(b) THEN NaN
    ELSE IF IsInf(a) THEN (IF IsInf(b) THEN NaN ELSE Inf)
    ELSE IF IsInf(b) THEN Zero
    ELSE IF b[1] = 0 THEN (IF a[1] = 0 THEN NaN ELSE Inf)
    ELSE Norm(a[1] * b[2], a[2] * b[1])

\* ----------------------------------------------------------------- helpers
Range(f) == {f[x] : x \in DOMAIN f}

SetMax(S) == CHOOSE x \in S : \A y \in S : y <= x

Min(a, b) == IF a < b THEN a ELSE b

\* ----------------------------------------------------- Indicator Harmonizer
\* data.write().max(axis=0) with the two outer column levels dropped: one
\* value per country, the largest of its observations.
MaxReduce(data) ==
    [index |-> data.index,
     val |-> [c \in Range(data.index) |-> Num(SetMax(data.obs[c]))]]

\* alldata[description] = sequence, or on NameError
\* alldata = pandas.DataFrame({description: sequence}).  Assigning a Series
\* to a column of an existing frame aligns it on the frame's index: labels
\* the frame lacks are dropped, labels the Series lacks read NaN.  A frame
\* whose index is still empty first takes the index of a non-empty Series.
AddColumn(table, description, sequence) ==
    IF ~IsBound(table)
    THEN [index |-> sequence.index, col |-> (description :> sequence.val)]
    ELSE LET index == IF table.index = <<>> /\ sequence.index # <<>>
                      THEN sequence.index ELSE table.index
             Align(f) == [c \in Range(index) |-> IF c \in DOMAIN f THEN f[c] ELSE NaN]
         IN [index |-> index,
             col |-> (description :> Align(sequence.val))
                        @@ [d \in DOMAIN table.col |-> Align(table.col[d])]]

\* the Atlas figure divided by the surface area
WithPPPByArea(table) ==
    [table EXCEPT !.col = (PPPColumn :>
        [c \in Range(table.index) |->
            FDiv(table.col[AtlasColumn][c], table.col[AreaColumn][c])]) @@ @]

\* alldata["PPP"] = alldata[Atlas] / alldata[PPP GNI]
WithPPP(table) ==
    [table EXCEPT !.col = (PPPColumn :>
        [c \in Range(table.index) |->
            FDiv(table.col[AtlasColumn][c], table.col[PPPGNIColumn][c])]) @@ @]

\* --------------------------------------------------- Output Matrix Indexer
\* a comparison that leaves out the last character of the prefix
StartsWithShort(s, p) == Len(s) >= Len(p) - 1 /\ SubSeq(s, 1, Len(p) - 1) = SubSeq(p, 1, Len(p) - 1)

StartsWith(s, p) == Len(s) >= Len(p) /\ SubSeq(s, 1, Len(p)) = p

\* [sect[4:] for sect in all_matrix.columns if sect.startswith("AUS_")]
SectorsOf(columns) ==
    LET matching == SelectSeq(columns, LAMBDA sect : StartsWith(sect, RefPrefix))
    IN [n \in 1..Len(matching) |->
           SubSeq(matching[n], PrefixLen + 1, Len(matching[n]))]

\* country+"_"+sector
Key(country, sector) == country \o <<"_">> \o sector

\* ------------------------------------------------------------------- state
VARIABLES
    unsd,         \* the UNSD service: series code -> observations per country
    icio,         \* ICIO2016_2011.csv: its columns and its "OUT" row
    pc,           \* the statement the script executes next
    i,            \* position of the indicator loop in Indicators
    alldata,      \* the country table (Undefined until the first series)
    all_output,   \* all_matrix.loc["OUT"]
    sectors,
    countries,
    countryarea,
    output_ppp,   \* [rows, ncol]: the numpy array and its second dimension
    k,            \* cells of output_ppp filled so far, in loop order
    stdout,       \* the lines printed by the build loop
    mask,         \* ~numpy.isnan(output_ppp).any(1)
    built,        \* history: output_ppp as the loop left it, before line 113
    lsq_args,     \* history: the arguments lsq_linear was called with
    optimized,
    printed,      \* the dict printed on line 118
    error         \* the exception that ended the run

vars == <<unsd, icio, pc, i, alldata, all_output, sectors, countries, countryarea,
          output_ppp, k, stdout, mask, built, lsq_args, optimized, printed, error>>

\* ------------------------------------------------------------------ inputs
AUS == <<"A", "U", "S">>
NZL == <<"N", "Z", "L">>
Universe == <<AUS, NZL>>
SectorA == <<"A">>
SectorB == <<"B">>
SectorC == <<"C">>
SectorPool == <<SectorA, SectorB, SectorC>>

\* what the service holds for one country and one series: at most
\* lastNObservations values
ObsSets(lo, hi) == {S \in SUBSET (lo..hi) : Cardinality(S) \in 1..LastNObservations}

Partial(V) == UNION {[D -> V] : D \in SUBSET Range(Universe)}

Raw(p) == [index |-> SelectSeq(Universe, LAMBDA c : c \in DOMAIN p), obs |-> p]

Service(first, atlas, pppgni, area, rest) ==
    [name \in IndicatorNames |->
        CASE name = "AG_LND_AGRI_ZS" -> Raw(first)
          [] name = "NY_GNP_PCAP_CD" -> Raw(atlas)
          [] name = "NY_GNP_PCAP_PP_CD" -> Raw(pppgni)
          [] name = "AG_SRF_TOTL_K2" -> Raw(area)
          [] OTHER -> Raw(rest)]

Everywhere(v) == [c \in Range(Universe) |-> {v}]

Nowhere == [c \in {} |-> {}]

\* the services the runs are checked on, the one without any data included
Services ==
    {Service(first, atlas, Everywhere(g), Everywhere(g + 1), Everywhere(1)) :
        first \in Partial({{1}}), atlas \in Partial(ObsSets(0, MaxVal)), g \in 0..MaxVal}
    \cup {Service(Nowhere, Nowhere, Nowhere, Nowhere, Nowhere)}

\* a CSV with the reference country's columns for the first n sectors of
\* the pool, then the other country's columns for the sectors in D
ColumnsOf(n, D) ==
    [s \in 1..n |-> Key(AUS, SectorPool[s])]
        \o SelectSeq([s \in 1..Len(SectorPool) |-> Key(NZL, SectorPool[s])],
                     LAMBDA col : \E s \in D : col = Key(NZL, SectorPool[s]))

OutRow(columns, base) ==
    [col \in Range(columns) |->
        Num((base + (CHOOSE n \in 1..Len(columns) : columns[n] = col)) % (MaxOut + 1))]

Files ==
    {[columns |-> ColumnsOf(n, D), out |-> OutRow(ColumnsOf(n, D), base)] :
        n \in 0..Len(SectorPool), D \in SUBSET (1..Len(SectorPool)), base \in 0..MaxOut}

Start ==
    /\ pc = "fetch"
    /\ i = 1
    /\ alldata = Undefined
    /\ all_output = Undefined
    /\ sectors = Undefined
    /\ countries = Undefined
    /\ countryarea = Undefined
    /\ output_ppp = Undefined
    /\ k = 0
    /\ stdout = <<>>
    /\ mask = Undefined
    /\ built = Undefined
    /\ lsq_args = Undefined
    /\ optimized = Undefined
    /\ printed = Undefined
    /\ error = Undefined

Init ==
    /\ unsd \in Services
    /\ icio \in Files
    /\ Start

\* ----------------------------------------------------------------- actions
\* lines 47-66: one pass of the indicator loop
FetchIndicator ==
    /\ pc = "fetch"
    /\ LET name == Indicators[i][1]
           description == Indicators[i][2]
           sequence == MaxReduce(unsd[name])
       IN alldata' = AddColumn(alldata, description, sequence)
    /\ i' = i + 1
    /\ pc' = IF i = Len(Indicators) THEN "ppp" ELSE "fetch"
    /\ UNCHANGED <<unsd, icio, all_output, sectors, countries, countryarea, output_ppp,
                   k, stdout, mask, built, lsq_args, optimized, printed, error>>

\* line 68
ComputePPP ==
    /\ pc = "ppp"
    /\ alldata' = WithPPP(alldata)
    /\ pc' = "icio"
    /\ UNCHANGED <<unsd, icio, i, all_output, sectors, countries, countryarea, output_ppp,
                   k, stdout, mask, built, lsq_args, optimized, printed, error>>

\* numpy.zeros((len(countries), len(sectors)))
Zeros(nrow, ncol) == [rows |-> [r \in 1..nrow |-> [s \in 1..ncol |-> Zero]], ncol |-> ncol]

\* alldata["Surface area (sq. km)"].values
AreaValues(table) == [r \in 1..Len(table.index) |-> table.col[AreaColumn][table.index[r]]]

\* lines 74-88 and 101
ReadICIO ==
    /\ pc = "icio"
    /\ all_output' = icio.out
    /\ sectors' = SectorsOf(icio.columns)
    /\ countries' = alldata.index
    /\ countryarea' = AreaValues(alldata)
    /\ output_ppp' = Zeros(Len(countries'), Len(sectors'))
    /\ k' = 0
    /\ pc' = "build"
    /\ UNCHANGED <<unsd, icio, i, alldata, stdout, mask, built, lsq_args, optimized,
                   printed, error>>

\* ---------------------------------------------------- Design Matrix Builder
\* the quotient taken the wrong way round
CellValueInverted(country, sector) ==
    FDiv(alldata.col[PPPColumn][country], all_output[Key(country, sector)])

\* all_output[country+"_"+sector] / alldata["PPP"][country]
CellValue(country, sector) ==
    FDiv(all_output[Key(country, sector)], alldata.col[PPPColumn][country])

\* a diagnostic that names the country alone
DiagLineCountry(country, sector) == country

\* print(country+"_"+sector)
DiagLine(country, sector) == Key(country, sector)

\* a missing key read as a silent zero
UnresolvedAsZero == Zero

\* numpy.nan
Unresolved == NaN

\* the (c, s) the nested loops reach after n cells
LoopCountry(n) == (n \div Len(sectors)) + 1
LoopSector(n) == (n % Len(sectors)) + 1

NumCells == Len(countries) * Len(sectors)

\* lines 102-110: one pass of the inner loop
BuildCell ==
    /\ pc = "build"
    /\ k < NumCells
    /\ LET c == LoopCountry(k)
           s == LoopSector(k)
           country == countries[c]
           sector == sectors[s]
       IN \/ /\ Key(country, sector) \in DOMAIN all_output
             /\ output_ppp' = [output_ppp EXCEPT !.rows[c][s] = CellValue(country, sector)]
             /\ UNCHANGED stdout
          \/ /\ Key(country, sector) \notin DOMAIN all_output
             /\ stdout' = Append(stdout, DiagLine(country, sector))
             /\ output_ppp' = [output_ppp EXCEPT !.rows[c][s] = Unresolved]
    /\ k' = k + 1
    /\ UNCHANGED <<unsd, icio, pc, i, alldata, all_output, sectors, countries, countryarea,
                   mask, built, lsq_args, optimized, printed, error>>

\* .all(1) in place of .any(1)
RowMaskAll(m) ==
    [r \in 1..Len(m.rows) |-> ~ \A s \in 1..m.ncol : IsNaN(m.rows[r][s])]

\* ~numpy.isnan(output_ppp).any(1)
RowMask(m) == [r \in 1..Len(m.rows) |-> ~ \E s \in 1..m.ncol : IsNaN(m.rows[r][s])]

\* output_ppp[mask]: the rows whose mask entry is True, in order
BoolIndex(m, msk) ==
    LET kept == SelectSeq([r \in 1..Len(m.rows) |-> r], LAMBDA r : msk[r])
    IN [rows |-> [n \in 1..Len(kept) |-> m.rows[kept[n]]], ncol |-> m.ncol]

\* line 113, once both loops are exhausted
FilterRows ==
    /\ pc = "build"
    /\ k = NumCells
    /\ mask' = RowMask(output_ppp)
    /\ built' = output_ppp
    /\ output_ppp' = BoolIndex(output_ppp, mask')
    /\ pc' = "solve"
    /\ UNCHANGED <<unsd, icio, i, alldata, all_output, sectors, countries, countryarea,
                   k, stdout, lsq_args, optimized, printed, error>>

\* ----------------------------------------------------- Coefficient Estimator
\* the whole matrix handed over as predictors
PredictorsAll(m) == [rows |-> m.rows, ncol |-> m.ncol]

\* output_ppp[:,:-1]
Predictors(m) ==
    [rows |-> [r \in 1..Len(m.rows) |-> SubSeq(m.rows[r], 1, m.ncol - 1)],
     ncol |-> m.ncol - 1]

\* output_ppp[:,-1]
Target(m) == [r \in 1..Len(m.rows) |-> m.rows[r][m.ncol]]

\* what scipy.optimize.lsq_linear(A, b, (0, inf)) can hand back: a vector
\* within the bounds, one entry per column of A, and whether it converged
LsqResults(A) ==
    [x : [1..A.ncol -> {Num(v) : v \in 0..MaxCoef}], success : BOOLEAN]

\* line 115, the arguments: the two slices are taken, then lsq_linear is
\* entered
Solve ==
    /\ pc = "solve"
    /\ \/ \* output_ppp[:,-1] on an array with no column: IndexError
          /\ output_ppp.ncol = 0
          /\ error' = "IndexError"
          /\ pc' = "crashed"
          /\ UNCHANGED lsq_args
       \/ /\ output_ppp.ncol > 0
          /\ lsq_args' = [A |-> Predictors(output_ppp), b |-> Target(output_ppp)]
          /\ pc' = "lsq"
          /\ UNCHANGED error
    /\ UNCHANGED <<unsd, icio, i, alldata, all_output, sectors, countries, countryarea,
                   output_ppp, k, stdout, mask, built, optimized, printed>>

\* line 115, the call: lsq_linear raises, or its result is bound to optimized
LsqLinear ==
    /\ pc = "lsq"
    /\ \/ /\ error' = "lsq_linear"
          /\ pc' = "crashed"
          /\ UNCHANGED optimized
       \/ /\ optimized' \in LsqResults(lsq_args.A)
          /\ pc' = "print"
          /\ UNCHANGED error
    /\ UNCHANGED <<unsd, icio, i, alldata, all_output, sectors, countries, countryarea,
                   output_ppp, k, stdout, mask, built, lsq_args, printed>>

\* dict(zip(keys, values)): pairs up to the shorter length, a repeated key
\* keeps its last value
DictZip(keys, values) ==
    LET n == Min(Len(keys), Len(values))
    IN [key \in {keys[j] : j \in 1..n} |->
           values[SetMax({j \in 1..n : keys[j] = key})]]

\* line 118
PrintResult ==
    /\ pc = "print"
    /\ printed' = DictZip(sectors, optimized.x)
    /\ pc' = "done"
    /\ UNCHANGED <<unsd, icio, i, alldata, all_output, sectors, countries, countryarea,
                   output_ppp, k, stdout, mask, built, lsq_args, optimized, error>>

Next ==
    \/ FetchIndicator
    \/ ComputePPP
    \/ ReadICIO
    \/ BuildCell
    \/ FilterRows
    \/ Solve
    \/ LsqLinear
    \/ PrintResult

Spec == Init /\ [][Next]_vars

\* ------------------------------------------------------------ stage markers
Harmonized == pc \notin {"fetch", "ppp"}
Indexed == Harmonized /\ pc # "icio"
Filtered == Indexed /\ pc # "build"

\* the matrix of the build loop, before line 113 rebinds output_ppp
PreFilter == IF pc = "build" THEN output_ppp ELSE built

\* cell (c, s) has been written by the loop
Written(c, s) == (c - 1) * Len(sectors) + (s - 1) < k

KeyPresent(c, s) == Key(countries[c], sectors[s]) \in DOMAIN icio.out

PPPOf(c) == alldata.col[PPPColumn][countries[c]]

\* q is the float a / b, for finite a and a divisor that is neither NaN nor 0
IsQuotient(q, a, b) ==
    IF IsInf(b) THEN q = Zero
    ELSE /\ IsFinite(q)
         /\ q[1] * b[1] * a[2] = a[1] * b[2] * q[2]

\* C1: every written cell whose composite key is in totalOutput and whose
\* country has a PPP that is present and non-zero holds
\* totalOutput[key] / PPP[country].
C1_CellIsOutputOverPPP ==
    Indexed =>
        \A c \in 1..Len(countries), s \in 1..Len(sectors) :
            (Written(c, s) /\ KeyPresent(c, s) /\ ~IsNaN(PPPOf(c)) /\ PPPOf(c) # Zero)
                => IsQuotient(PreFilter.rows[c][s],
                              icio.out[Key(countries[c], sectors[s])], PPPOf(c))

\* a finished build with a cell that differs from its raw output value
C1_Witness ==
    /\ Filtered
    /\ \E c \in 1..Len(countries), s \in 1..Len(sectors) :
           /\ KeyPresent(c, s)
           /\ IsFinite(PPPOf(c)) /\ PPPOf(c) \notin {Zero, Num(1)}
           /\ icio.out[Key(countries[c], sectors[s])] # Zero
           /\ built.rows[c][s] # icio.out[Key(countries[c], sectors[s])]

\* the rank of n in the set S of numbers: how many members are <= n
Rank(S, n) == Cardinality({x \in S : x <= n})

RowHasNaN(m, r) == \E s \in 1..m.ncol : IsNaN(m.rows[r][s])

\* C2: a composite key absent from totalOutput never ends the build: the
\* cell is NaN, the key is on stdout, the loop goes on to the last pair, and
\* the country's row is not in the filtered matrix.
C2_LookupMissPolicy ==
    /\ (pc = "crashed" => Filtered /\ k = NumCells)
    /\ Indexed =>
           \A c \in 1..Len(countries), s \in 1..Len(sectors) :
               (Written(c, s) /\ ~KeyPresent(c, s)) =>
                   /\ IsNaN(PreFilter.rows[c][s])
                   /\ \E n \in 1..Len(stdout) : stdout[n] = Key(countries[c], sectors[s])
    /\ Filtered =>
           /\ k = NumCells
           /\ \A c \in 1..Len(countries), s \in 1..Len(sectors) : Written(c, s)
           /\ \A c \in 1..Len(countries) :
                  (\E s \in 1..Len(sectors) : ~KeyPresent(c, s)) => ~mask[c]
           /\ Len(output_ppp.rows) = Cardinality({c \in 1..Len(countries) : mask[c]})
           /\ Len(output_ppp.rows)
                  <= Cardinality({c \in 1..Len(countries) :
                                     \A s \in 1..Len(sectors) : KeyPresent(c, s)})

\* a finished run in which a key was missing and a later pair was resolved
C2_Witness ==
    /\ pc = "done"
    /\ \E c \in 1..Len(countries), s \in 1..Len(sectors) :
           /\ ~KeyPresent(c, s)
           /\ \E s2 \in 1..Len(sectors) : s2 > s /\ KeyPresent(c, s2)
           /\ \E c2 \in 1..Len(countries) : c2 # c /\ mask[c2]

\* C3: the filtered matrix is exactly the rows of the built matrix without a
\* NaN, in their original order and with their cells unchanged, so it has
\* the sectors' columns and no NaN reaches lsq_linear.
C3_RowFilter ==
    Filtered =>
        LET kept == {r \in 1..Len(built.rows) : ~RowHasNaN(built, r)}
        IN /\ Len(built.rows) = Len(countries)
           /\ output_ppp.ncol = Len(sectors)
           /\ Len(output_ppp.rows) = Cardinality(kept)
           /\ \A r \in kept : output_ppp.rows[Rank(kept, r)] = built.rows[r]
           /\ \A r \in 1..Len(output_ppp.rows) :
                  /\ Len(output_ppp.rows[r]) = Len(sectors)
                  /\ ~RowHasNaN(output_ppp, r)
           /\ IsBound(lsq_args) =>
                  /\ \A r \in 1..Len(lsq_args.A.rows), s \in 1..lsq_args.A.ncol :
                         ~IsNaN(lsq_args.A.rows[r][s])
                  /\ \A r \in 1..Len(lsq_args.b) : ~IsNaN(lsq_args.b[r])

\* the first country's row was dropped and the second one's kept
C3_Witness ==
    /\ Filtered
    /\ Len(built.rows) = 2
    /\ RowHasNaN(built, 1)
    /\ Len(output_ppp.rows) = 1
    /\ output_ppp.rows[1] = built.rows[2]
    /\ Len(sectors) >= 2
    /\ IsBound(lsq_args)

\* ------------------------------------------- sector extraction, wider inputs
\* column names around the reference prefix: two of the reference country,
\* the bare country code, the bare prefix, a near miss, and a name that
\* holds the prefix further in
NamePool ==
    {Key(AUS, SectorA), Key(AUS, SectorB), AUS, RefPrefix,
     <<"A", "U", "T", "_", "A">>, <<"X", "A", "U", "S", "_", "A">>}

\* pandas.read_csv keeps column names distinct
InjectiveSeqs(S, n) ==
    UNION {{q \in [1..m -> S] : \A a, b \in 1..m : a # b => q[a] # q[b]} : m \in 0..n}

InitSectors ==
    /\ unsd = Service(Everywhere(1), Everywhere(1), Everywhere(1), Everywhere(1),
                      Everywhere(1))
    /\ \E columns \in InjectiveSeqs(NamePool, MaxCols) :
           icio = [columns |-> columns, out |-> [col \in Range(columns) |-> Num(1)]]
    /\ Start

SpecSectors == InitSectors /\ [][Next]_vars

\* the columns of the CSV that carry the reference prefix, by position
RefColumns ==
    {n \in 1..Len(icio.columns) :
        /\ Len(icio.columns[n]) >= 4
        /\ icio.columns[n][1] = "A" /\ icio.columns[n][2] = "U"
        /\ icio.columns[n][3] = "S" /\ icio.columns[n][4] = "_"}

\* C4: the sector list is the suffixes of the columns that start with
\* "AUS_", one per such column and in column order, and it is empty exactly
\* when no column starts with "AUS_".
C4_SectorExtraction ==
    Indexed =>
        /\ Len(sectors) = Cardinality(RefColumns)
        /\ \A n \in RefColumns :
               /\ Len(sectors[Rank(RefColumns, n)]) = Len(icio.columns[n]) - 4
               /\ \A j \in 1..Len(sectors[Rank(RefColumns, n)]) :
                      sectors[Rank(RefColumns, n)][j] = icio.columns[n][j + 4]
        /\ (sectors = <<>>) <=> (RefColumns = {})

\* two sectors extracted around a column that does not match
C4_Witness ==
    /\ Indexed
    /\ Len(icio.columns) = 3
    /\ RefColumns = {1, 3}
    /\ sectors = <<SectorB, <<>> >>

\* -------------------------------------------------------- structural failure
\* C5: with an empty sector list or an empty country list the run ends in a
\* failure and lsq_linear is never called.
C5_StructuralFailure ==
    (Indexed /\ (Len(sectors) = 0 \/ Len(countries) = 0)) =>
        /\ ~IsBound(lsq_args)
        /\ pc \notin {"print", "done"}

\* the half of C5 the script does honour: no sector, no call
C5_EmptySectorsCrash ==
    (Indexed /\ Len(sectors) = 0) =>
        /\ ~IsBound(lsq_args)
        /\ pc \in {"build", "solve", "crashed"}

\* ------------------------------------------------------- harmonized table
\* the countries that occur in at least one series of the service
CountriesServed == UNION {Range(unsd[name].index) : name \in IndicatorNames}

SeriesValue(name, c) == Num(SetMax(unsd[name].obs[c]))

\* C6: the harmonized table has one row for each country of any series, and
\* its PPP column is GNI-Atlas / GNI-PPP wherever both are present.
C6_HarmonizedTable ==
    Harmonized =>
        /\ Range(alldata.index) = CountriesServed
        /\ Len(alldata.index) = Cardinality(CountriesServed)
        /\ \A c \in Range(alldata.index) :
               (/\ c \in Range(unsd["NY_GNP_PCAP_CD"].index)
                /\ c \in Range(unsd["NY_GNP_PCAP_PP_CD"].index))
                   => alldata.col[PPPColumn][c] =
                          FDiv(SeriesValue("NY_GNP_PCAP_CD", c),
                               SeriesValue("NY_GNP_PCAP_PP_CD", c))

Degenerate(args) ==
    \/ Len(args.A.rows) = 0
    \/ args.A.ncol = 0
    \/ \A r \in 1..Len(args.A.rows), s \in 1..args.A.ncol : args.A.rows[r][s] = Zero

\* C8: a solve that did not converge, or that was given a degenerate input,
\* never ends in a printed sector -> coefficient mapping.
C8_SolverFailureDistinct ==
    pc = "done" => optimized.success /\ ~Degenerate(lsq_args)

\* --------------------------------------------------------------- diagnostics
\* the pairs reached so far whose key is not in totalOutput, as loop positions
MissingSoFar ==
    {n \in 0..(k - 1) : ~KeyPresent(LoopCountry(n), LoopSector(n))}

\* stdout holds the missing keys, one line each, in loop order, nothing else
DiagnosticsExact ==
    /\ Len(stdout) = Cardinality(MissingSoFar)
    /\ \A n \in MissingSoFar :
           stdout[Rank(MissingSoFar, n)]
               = Key(countries[LoopCountry(n)], sectors[LoopSector(n)])

Diagnosed(c) ==
    \E n \in 1..Len(stdout), s \in 1..Len(sectors) :
        stdout[n] = Key(countries[c], sectors[s])

\* C9 as stated: the diagnostics are exact, and a row is dropped only if a
\* diagnostic names a key of its country.
C9_DroppedOnlyIfDiagnosed ==
    /\ Indexed => DiagnosticsExact
    /\ Filtered => \A c \in 1..Len(countries) : ~mask[c] => Diagnosed(c)

\* C9 amended: the diagnostics are exact, and a row is dropped only if a
\* diagnostic names a key of its country, or the country's PPP is NaN, or
\* its PPP is 0 and one of its output values is 0.
C9_DroppedOnlyIfDiagnosedOrNaN ==
    /\ Indexed => DiagnosticsExact
    /\ Filtered =>
           \A c \in 1..Len(countries) :
               ~mask[c] =>
                   \/ Diagnosed(c)
                   \/ IsNaN(PPPOf(c))
                   \/ /\ PPPOf(c) = Zero
                      /\ \E s \in 1..Len(sectors) :
                             /\ KeyPresent(c, s)
                             /\ icio.out[Key(countries[c], sectors[s])] = Zero

\* two diagnostics for the second country, and the first country's row
\* dropped without any
C9_Witness ==
    /\ Filtered
    /\ Len(stdout) = 2
    /\ Len(countries) = 2
    /\ ~mask[1] /\ ~Diagnosed(1)
    /\ ~mask[2] /\ Diagnosed(2)

\* ------------------------------------------------- land area and the estimate
\* lines 46-68 run on a service src: the harmonized table
RECURSIVE HarmonizeFrom(_, _, _)
HarmonizeFrom(src, table, n) ==
    IF n > Len(Indicators) THEN table
    ELSE HarmonizeFrom(src,
                       AddColumn(table, Indicators[n][2], MaxReduce(src[Indicators[n][1]])),
                       n + 1)

TableOf(src) == WithPPP(HarmonizeFrom(src, Undefined, 1))

\* lines 101-110 run on a table and a CSV: the matrix as the loop leaves it
MatrixOf(table, file) ==
    LET secs == SectorsOf(file.columns)
    IN [rows |-> [c \in 1..Len(table.index) |->
                     [s \in 1..Len(secs) |->
                         IF Key(table.index[c], secs[s]) \in DOMAIN file.out
                         THEN FDiv(file.out[Key(table.index[c], secs[s])],
                                   table.col[PPPColumn][table.index[c]])
                         ELSE NaN]],
        ncol |-> Len(secs)]

\* the services that differ from src in the surface-area values only
AreaVariants(src) ==
    {[src EXCEPT !["AG_SRF_TOTL_K2"].obs = area] :
        area \in [DOMAIN src["AG_SRF_TOTL_K2"].obs -> {{0}, {MaxVal + 2}}]}

====
